---- MODULE Spec2Model ----
(***************************************************************************)
(* A model of Thermostat/FanCoilHelper.cpp: the rolling sensor averages,   *)
(* the settings store (ReadConfiguration / SaveConfiguration over a JSON   *)
(* config file) and the connectivity bootstrap (mangeConnectAndSettings).  *)
(***************************************************************************)
EXTENDS Integers, Sequences, FiniteSets, TLC

VARIABLES
    sensor,          \* TemperatureData, HumidityData, InletData (SensorData records)
    writePos,        \* per channel: the ring buffer's write cursor (0-based)
    fed,             \* per channel: the readings recorded since the last reset (history)
    initialized,     \* initializeSensorData has run
    sop,             \* the last sensor operation: [op, ch]
    nops,            \* sensor operations performed so far
    mem,             \* the bytes of the DeviceSettings object
    file,            \* the configuration file: [exists, bytes]
    shouldSaveConfig,\* _shouldSaveConfig
    mounted,         \* SPIFFS is mounted
    crashed,         \* the firmware has aborted and waits for its restart
    saved,           \* the most recent SaveConfiguration call: [called, mem, wrote]
    last,            \* what the most recent call did
    ncalls           \* settings and bootstrap calls performed so far

svars == <<sensor, writePos, fed, initialized, sop, nops>>

cvars == <<mem, file, shouldSaveConfig, mounted, crashed, saved, last, ncalls>>

vars == <<sensor, writePos, fed, initialized, sop, nops,
          mem, file, shouldSaveConfig, mounted, crashed, saved, last, ncalls>>

(***************************************************************************)
(* Sensor channels                                                         *)
(***************************************************************************)

Channels == {"TemperatureData", "HumidityData", "InletData"}

\* Readings are fixed-point numbers: integers counting units of 10^-Scale.
Scale == 2

\* The raw readings a sensor can deliver, in hundredths (-0.05, 0.12, 0.25).
Readings == {-5, 12, 25}

\* The number of sensor operations a behaviour explores.
MaxSensorOps == 7

TEMPERATURE_ARRAY_LEN == 3
HUMIDITY_ARRAY_LEN == 2
INLET_ARRAY_LEN == 2

TEMPERATURE_PRECISION == 1
HUMIDITY_PRECISION == 0
INLET_PRECISION == 1

CHECK_TEMP_INTERVAL_MS == 5000
CHECK_HUMIDITY_INTERVAL_MS == 6000
CHECK_INLET_INTERVAL_MS == 7000

RECURSIVE Pow10(_)
Pow10(n) == IF n <= 0 THEN 1 ELSE 10 * Pow10(n - 1)

\* n/d rounded to the nearest integer, halves away from zero (d > 0).
RoundHalfAway(n, d) ==
    IF n >= 0 THEN (2 * n + d) \div (2 * d)
              ELSE -((2 * (-n) + d) \div (2 * d))

\* roundF(temp, precision) of the value num/den hundredths: the nearest multiple of
\* 10^-precision, again in hundredths.
roundF(num, den, precision) ==
    RoundHalfAway(num, den * Pow10(Scale - precision)) * Pow10(Scale - precision)

\* The loop of calcAverage: temp += data[i] for i = 0 .. dataLength-1.
RECURSIVE SumLoop(_, _, _)
SumLoop(data, i, dataLength) ==
    IF i >= dataLength THEN 0 ELSE data[i + 1] + SumLoop(data, i + 1, dataLength)

\* A faulty calcAverage whose sum leaves out the first slot.
calcAverage_SkipsFirst(data, dataLength, precision) ==
    roundF(SumLoop(data, 1, dataLength), dataLength, precision)

\* calcAverage(data, dataLength, precision): roundF(sum / dataLength, precision).
calcAverage(data, dataLength, precision) ==
    roundF(SumLoop(data, 0, dataLength), dataLength, precision)

\* A SensorData object in static storage before initializeSensorData: all zero.
ZeroSensorData ==
    [IsExists |-> FALSE, Current |-> 0, Average |-> 0, DataCollection |-> <<>>,
     DataCollectionLen |-> 0, Precision |-> 0, CheckDataIntervalMS |-> 0,
     DataType |-> "Temperature"]

\* The assignments of initializeSensorData to one SensorData object.
Configure(s, len, precision, interval, type) ==
    [s EXCEPT !.DataCollection = [i \in 1..len |-> 0],
              !.DataCollectionLen = len,
              !.Precision = precision,
              !.CheckDataIntervalMS = interval,
              !.DataType = type]

\* A faulty setArrayValues that leaves the last slot as it was.
setArrayValues_StopsEarly(s) ==
    IF ~s.IsExists
    THEN s
    ELSE [s EXCEPT !.DataCollection =
                       [i \in 1..s.DataCollectionLen |->
                           IF i < s.DataCollectionLen THEN s.Current ELSE @[i]],
                   !.Average = s.Current]

\* setArrayValues(sensor): nothing when the sensor does not exist; otherwise every slot
\* and Average take Current.
setArrayValues(s) ==
    IF ~s.IsExists
    THEN s
    ELSE [s EXCEPT !.DataCollection = [i \in 1..s.DataCollectionLen |-> s.Current],
                   !.Average = s.Current]

\* Recording a reading: the slot under the write cursor (the oldest one) is
\* overwritten with the current reading and the average is recomputed.
StoreReading(s, pos) ==
    LET data == [s.DataCollection EXCEPT ![pos + 1] = s.Current]
    IN [s EXCEPT !.DataCollection = data,
                 !.Average = calcAverage(data, s.DataCollectionLen, s.Precision)]

SensorInit ==
    /\ sensor = [c \in Channels |-> ZeroSensorData]
    /\ writePos = [c \in Channels |-> 0]
    /\ fed = [c \in Channels |-> <<>>]
    /\ initialized = FALSE
    /\ sop = [op |-> "none", ch |-> "none"]
    /\ nops = 0

initializeSensorData ==
    /\ ~initialized
    /\ initialized' = TRUE
    /\ sensor' = [sensor EXCEPT
          !["TemperatureData"] = Configure(@, TEMPERATURE_ARRAY_LEN, TEMPERATURE_PRECISION,
                                           CHECK_TEMP_INTERVAL_MS, "Temperature"),
          !["HumidityData"] = Configure(@, HUMIDITY_ARRAY_LEN, HUMIDITY_PRECISION,
                                        CHECK_HUMIDITY_INTERVAL_MS, "Humidity"),
          !["InletData"] = Configure(@, INLET_ARRAY_LEN, INLET_PRECISION,
                                     CHECK_INLET_INTERVAL_MS, "InletPipe")]
    /\ sop' = [op |-> "initializeSensorData", ch |-> "none"]
    /\ UNCHANGED <<writePos, fed, nops>>
    /\ UNCHANGED cvars

\* The caller finds the sensor present or absent.
DetectSensor(c, present) ==
    /\ initialized
    /\ nops < MaxSensorOps
    /\ nops' = nops + 1
    /\ sensor[c].IsExists # present
    /\ sensor' = [sensor EXCEPT ![c].IsExists = present]
    /\ sop' = [op |-> "DetectSensor", ch |-> c]
    /\ UNCHANGED <<writePos, fed, initialized>>
    /\ UNCHANGED cvars

\* The caller samples a present sensor into Current.
ReadSensor(c, v) ==
    /\ initialized
    /\ nops < MaxSensorOps
    /\ nops' = nops + 1
    /\ sensor[c].IsExists
    /\ sensor' = [sensor EXCEPT ![c].Current = v]
    /\ sop' = [op |-> "ReadSensor", ch |-> c]
    /\ UNCHANGED <<writePos, fed, initialized>>
    /\ UNCHANGED cvars

Reset(c) ==
    /\ initialized
    /\ nops < MaxSensorOps
    /\ nops' = nops + 1
    /\ sensor' = [sensor EXCEPT ![c] = setArrayValues(@)]
    /\ fed' = [fed EXCEPT ![c] = <<>>]
    /\ sop' = [op |-> "setArrayValues", ch |-> c]
    /\ UNCHANGED <<writePos, initialized>>
    /\ UNCHANGED cvars

recordAndAverage(c) ==
    /\ initialized
    /\ nops < MaxSensorOps
    /\ nops' = nops + 1
    /\ sensor[c].IsExists
    /\ sensor' = [sensor EXCEPT ![c] = StoreReading(@, writePos[c])]
    /\ writePos' = [writePos EXCEPT ![c] = (@ + 1) % sensor[c].DataCollectionLen]
    /\ fed' = [fed EXCEPT ![c] = Append(@, sensor[c].Current)]
    /\ sop' = [op |-> "recordAndAverage", ch |-> c]
    /\ UNCHANGED initialized
    /\ UNCHANGED cvars

SensorNext ==
    \/ initializeSensorData
    \/ \E c \in Channels, present \in BOOLEAN : DetectSensor(c, present)
    \/ \E c \in Channels, v \in Readings : ReadSensor(c, v)
    \/ \E c \in Channels : Reset(c)
    \/ \E c \in Channels : recordAndAverage(c)


(***************************************************************************)
(* Properties of the sensor channels                                       *)
(***************************************************************************)

RECURSIVE SeqSum(_)
SeqSum(s) == IF s = <<>> THEN 0 ELSE Head(s) + SeqSum(Tail(s))

Abs(x) == IF x < 0 THEN -x ELSE x

\* avg is the mean of seq rounded to `precision` decimal digits: a multiple of
\* 10^-precision at most half a unit from the mean, the farther from zero of the two
\* candidates when the mean lies exactly between them.
IsRoundedMean(avg, seq, precision) ==
    LET u == Pow10(Scale - precision)
        n == Len(seq)
        sum == SeqSum(seq)
    IN /\ avg % u = 0
       /\ 2 * Abs(n * avg - sum) <= n * u
       /\ 2 * Abs(n * avg - sum) = n * u => Abs(n * avg) > Abs(sum)

LastN(s, n) == SubSeq(s, Len(s) - n + 1, Len(s))

\* C8: once initializeSensorData has run, every channel that exists has a buffer of
\* exactly DataCollectionLen entries and an Average equal to the mean of the buffer's
\* current contents rounded to the channel's Precision.
C8_AverageIsRoundedMean ==
    initialized =>
        \A c \in Channels :
            sensor[c].IsExists =>
                /\ Len(sensor[c].DataCollection) = sensor[c].DataCollectionLen
                /\ IsRoundedMean(sensor[c].Average, sensor[c].DataCollection,
                                 sensor[c].Precision)

\* C9: right after recordAndAverage on a channel, once at least DataCollectionLen
\* readings have been recorded since the channel's last reset, Average is the mean of
\* exactly the last DataCollectionLen recorded readings, rounded to Precision.
C9_WindowAverage ==
    \A c \in Channels :
        (sop.op = "recordAndAverage" /\ sop.ch = c
            /\ Len(fed[c]) >= sensor[c].DataCollectionLen)
        => IsRoundedMean(sensor[c].Average,
                         LastN(fed[c], sensor[c].DataCollectionLen),
                         sensor[c].Precision)

\* C9 witness: more readings than the buffer holds have been recorded, the evicted
\* reading differs from the newest one, and the window holds different readings.
C9_Witness ==
    \E c \in Channels :
        /\ sop.op = "recordAndAverage" /\ sop.ch = c
        /\ Len(fed[c]) > sensor[c].DataCollectionLen
        /\ fed[c][1] # fed[c][Len(fed[c])]
        /\ \E i, j \in DOMAIN sensor[c].DataCollection :
               sensor[c].DataCollection[i] # sensor[c].DataCollection[j]

\* C10: a setArrayValues call on a channel whose IsExists is false changes nothing of
\* the channel; on a channel that exists it leaves every one of the DataCollectionLen
\* slots holding Current and Average equal to Current, and keeps the capacity, the
\* precision, the poll interval and the kind.
C10_Reset ==
    [][\A c \in Channels :
          (sop'.op = "setArrayValues" /\ sop'.ch = c /\ nops' = nops + 1)
          => IF ~sensor[c].IsExists
             THEN sensor'[c] = sensor[c]
             ELSE /\ Len(sensor'[c].DataCollection) = sensor[c].DataCollectionLen
                  /\ \A i \in 1..sensor[c].DataCollectionLen :
                        sensor'[c].DataCollection[i] = sensor[c].Current
                  /\ sensor'[c].Average = sensor[c].Current
                  /\ sensor'[c].Current = sensor[c].Current
                  /\ sensor'[c].IsExists
                  /\ sensor'[c].DataCollectionLen = sensor[c].DataCollectionLen
                  /\ sensor'[c].Precision = sensor[c].Precision
                  /\ sensor'[c].CheckDataIntervalMS = sensor[c].CheckDataIntervalMS
                  /\ sensor'[c].DataType = sensor[c].DataType]_vars

\* C10 witness: an existing channel whose buffer held other values has just been reset
\* with a reading that is not a multiple of its rounding unit.
C10_Witness ==
    \E c \in Channels :
        /\ sop.op = "setArrayValues" /\ sop.ch = c
        /\ sensor[c].IsExists
        /\ sensor[c].Current % Pow10(Scale - sensor[c].Precision) # 0
        /\ \A i \in DOMAIN sensor[c].DataCollection :
               sensor[c].DataCollection[i] = sensor[c].Current
        /\ sensor[c].Average = sensor[c].Current

(***************************************************************************)
(* DeviceSettings: nine fixed-capacity character arrays, laid out one      *)
(* after the other.  Characters are one-character strings; NUL is the      *)
(* string terminator.                                                      *)
(***************************************************************************)

NUL == "NUL"
QUOTE == "\""
BACKSLASH == "\\"

MQTT_SERVER_LEN == 3
MQTT_PORT_LEN == 2
MQTT_CLIENT_ID_LEN == 2
MQTT_USER_LEN == 2
MQTT_PASS_LEN == 2
BASE_TOPIC_LEN == 3
MODE_LEN == 2
DEVICE_STATE_LEN == 2
DESIRED_TEMPERATURE_LEN == 3

\* The fields in declaration order; the first six are the onboarding form's.
Fields ==
    <<"MqttServer", "MqttPort", "MqttClientId", "MqttUser", "MqttPass", "BaseTopic",
      "Mode", "DeviceState", "DesiredTemperature">>

FieldIds == 1..Len(Fields)
FormIds == 1..6

FieldLen ==
    <<MQTT_SERVER_LEN, MQTT_PORT_LEN, MQTT_CLIENT_ID_LEN, MQTT_USER_LEN, MQTT_PASS_LEN,
      BASE_TOPIC_LEN, MODE_LEN, DEVICE_STATE_LEN, DESIRED_TEMPERATURE_LEN>>

\* The configuration document's key of each field.
MQTT_SERVER_KEY == <<"s">>
MQTT_PORT_KEY == <<"p">>
MQTT_CLIENT_ID_KEY == <<"c">>
MQTT_USER_KEY == <<"u">>
MQTT_PASS_KEY == <<"w">>
BASE_TOPIC_KEY == <<"t">>
MODE_KEY == <<"m">>
DEVICE_STATE_KEY == <<"d">>
DESIRED_TEMPERATURE_KEY == <<"e">>

FieldKey ==
    <<MQTT_SERVER_KEY, MQTT_PORT_KEY, MQTT_CLIENT_ID_KEY, MQTT_USER_KEY, MQTT_PASS_KEY,
      BASE_TOPIC_KEY, MODE_KEY, DEVICE_STATE_KEY, DESIRED_TEMPERATURE_KEY>>

RECURSIVE Offset(_)
Offset(f) == IF f = 1 THEN 0 ELSE Offset(f - 1) + FieldLen[f - 1]

\* The offset of each field in the struct.
FieldOffset == [f \in FieldIds |-> Offset(f)]

StructSize == FieldOffset[Len(Fields)] + FieldLen[Len(Fields)]

\* s followed by NULs up to n bytes.
Padded(s, n) == [i \in 1..n |-> IF i <= Len(s) THEN s[i] ELSE NUL]

RECURSIVE Flatten(_)
Flatten(ss) == IF ss = <<>> THEN <<>> ELSE Head(ss) \o Flatten(Tail(ss))

\* The in-class initializers of DeviceSettings: a default string per field, the rest
\* of each array zero.
DefaultStrings == << <<"x">>, <<"1">>, <<"c">>, <<>>, <<>>, <<"t">>, <<"h">>, <<"o">>, <<"2">> >>

DefaultSettings == Flatten([f \in FieldIds |-> Padded(DefaultStrings[f], FieldLen[f])])

\* Storing bytes from address `at` (1-based, within the struct) on: a store past the
\* end of the struct lands outside the model's memory.
WriteBytes(m, at, bytes) ==
    [i \in 1..Len(m) |-> IF i >= at /\ i < at + Len(bytes) THEN bytes[i - at + 1] ELSE m[i]]

\* The C string starting at address `at`: the bytes up to the first NUL (or to the end of
\* the struct, where the model's memory ends).
RECURSIVE CStringAt(_, _)
CStringAt(m, at) ==
    IF at > Len(m) \/ m[at] = NUL THEN <<>> ELSE <<m[at]>> \o CStringAt(m, at + 1)

FieldString(m, f) == CStringAt(m, FieldOffset[f] + 1)

\* Field f holds a terminator inside its own array.
Terminated(m, f) == \E i \in 1..FieldLen[f] : m[FieldOffset[f] + i] = NUL

NULL == [null |-> TRUE, s |-> <<>>]
Ptr(s) == [null |-> FALSE, s |-> s]

\* strcpy(dst, src): the characters of src and its terminator.
strcpy(m, f, src) == WriteBytes(m, FieldOffset[f] + 1, src \o <<NUL>>)

\* copyJsonValue(s, jsonValue) with s the array of field f: strncpy of strlen(jsonValue)
\* characters, then the terminator at s[len]; nothing looks at the array's capacity.
copyJsonValue(m, f, jsonValue) ==
    IF jsonValue.null
    THEN m
    ELSE WriteBytes(WriteBytes(m, FieldOffset[f] + 1, jsonValue.s),
                    FieldOffset[f] + 1 + Len(jsonValue.s), <<NUL>>)

\* The number of bytes copyJsonValue stores into the array of a field.
BytesStored(jsonValue) == IF jsonValue.null THEN 0 ELSE Len(jsonValue.s) + 1

(***************************************************************************)
(* The JSON document of the configuration file.  A value is a string, a    *)
(* number or null; a document is a sequence of members [key, val].         *)
(***************************************************************************)

JStr(s) == [t |-> "str", s |-> s]
JNum(digits) == [t |-> "num", s |-> digits]
JNull == [t |-> "null", s |-> <<>>]

Digits == {"0", "1", "2", "3", "4", "5", "6", "7", "8", "9"}

\* A string's characters as serializeJson writes them between the quotes.
RECURSIVE EscapeString(_)
EscapeString(s) ==
    IF s = <<>> THEN <<>>
    ELSE (IF Head(s) \in {QUOTE, BACKSLASH} THEN <<BACKSLASH, Head(s)>> ELSE <<Head(s)>>)
         \o EscapeString(Tail(s))

Quoted(s) == <<QUOTE>> \o EscapeString(s) \o <<QUOTE>>

SerializeValue(v) ==
    CASE v.t = "str" -> Quoted(v.s)
      [] v.t = "num" -> v.s
      [] OTHER -> <<"n", "u", "l", "l">>

RECURSIVE SerializeMembers(_)
SerializeMembers(doc) ==
    IF doc = <<>> THEN <<>>
    ELSE Quoted(Head(doc).key) \o <<":">> \o SerializeValue(Head(doc).val)
         \o (IF Tail(doc) = <<>> THEN <<>> ELSE <<",">>)
         \o SerializeMembers(Tail(doc))

serializeJson(doc) == <<"{">> \o SerializeMembers(doc) \o <<"}">>

\* The parser reads a NUL-terminated input, one character at a time, and stops after
\* the value it has parsed.  i is the position of the next character.
RECURSIVE ParseQuoted(_, _, _)
ParseQuoted(t, i, acc) ==
    CASE t[i] = NUL -> [ok |-> FALSE, next |-> i, s |-> acc]
      [] t[i] = QUOTE -> [ok |-> TRUE, next |-> i + 1, s |-> acc]
      [] t[i] = BACKSLASH ->
            IF t[i + 1] \in {QUOTE, BACKSLASH}
            THEN ParseQuoted(t, i + 2, Append(acc, t[i + 1]))
            ELSE [ok |-> FALSE, next |-> i, s |-> acc]
      [] OTHER -> ParseQuoted(t, i + 1, Append(acc, t[i]))

RECURSIVE ParseDigits(_, _, _)
ParseDigits(t, i, acc) ==
    IF t[i] \in Digits THEN ParseDigits(t, i + 1, Append(acc, t[i]))
    ELSE [ok |-> TRUE, next |-> i, val |-> JNum(acc)]

ParseValue(t, i) ==
    CASE t[i] = QUOTE ->
            LET r == ParseQuoted(t, i + 1, <<>>)
            IN [ok |-> r.ok, next |-> r.next, val |-> JStr(r.s)]
      [] t[i] \in Digits -> ParseDigits(t, i, <<>>)
      [] t[i] = "n" ->
            IF i + 3 <= Len(t) /\ SubSeq(t, i, i + 3) = <<"n", "u", "l", "l">>
            THEN [ok |-> TRUE, next |-> i + 4, val |-> JNull]
            ELSE [ok |-> FALSE, next |-> i, val |-> JNull]
      [] OTHER -> [ok |-> FALSE, next |-> i, val |-> JNull]

RECURSIVE ParseMembers(_, _, _)
ParseMembers(t, i, acc) ==
    IF t[i] # QUOTE THEN [error |-> TRUE, doc |-> <<>>]
    ELSE LET k == ParseQuoted(t, i + 1, <<>>)
         IN IF ~k.ok \/ t[k.next] # ":" THEN [error |-> TRUE, doc |-> <<>>]
            ELSE LET v == ParseValue(t, k.next + 1)
                     members == Append(acc, [key |-> k.s, val |-> v.val])
                 IN CASE ~v.ok -> [error |-> TRUE, doc |-> <<>>]
                      [] v.ok /\ t[v.next] = "," -> ParseMembers(t, v.next + 1, members)
                      [] v.ok /\ t[v.next] = "}" -> [error |-> FALSE, doc |-> members]
                      [] OTHER -> [error |-> TRUE, doc |-> <<>>]

\* deserializeJson(jsonDoc, input): an object's members, or a value that is no object
\* (a document without members), or an error.
deserializeJson(t) ==
    IF t[1] = "{"
    THEN IF t[2] = "}" THEN [error |-> FALSE, doc |-> <<>>] ELSE ParseMembers(t, 2, <<>>)
    ELSE [error |-> ~ParseValue(t, 1).ok, doc |-> <<>>]

\* jsonDoc[key] converted to const char*: the member's string, NULL when the key is
\* missing or its value is no string.
RECURSIVE GetString(_, _)
GetString(doc, key) ==
    IF doc = <<>> THEN NULL
    ELSE IF Head(doc).key = key
         THEN (IF Head(doc).val.t = "str" THEN Ptr(Head(doc).val.s) ELSE NULL)
         ELSE GetString(Tail(doc), key)

(***************************************************************************)
(* The settings store                                                      *)
(***************************************************************************)

\* The nine copyJsonValue calls of ReadConfiguration, from field f on, in the order of
\* the source.
RECURSIVE CopyFields(_, _, _)
CopyFields(m, doc, f) ==
    IF f > Len(Fields) THEN m
    ELSE CopyFields(copyJsonValue(m, f, GetString(doc, FieldKey[f])), doc, f + 1)

\* What follows the file's bytes in memory: the buffer ReadConfiguration reads the
\* file into is exactly as long as the file and is handed to the parser unterminated.
Garbage == { <<>>, <<QUOTE, "}">> }

ReadResult(m, mnt, path, doc, aborted) ==
    [mem |-> m, mounted |-> mnt, path |-> path, doc |-> doc, aborted |-> aborted]

\* ReadConfiguration(settings).  beginOk and openOk are the answers of SPIFFS.begin()
\* and SPIFFS.open(.., "r"); garbage is what the parser finds past the buffer; benign
\* tells whether destroying jsonDoc and buf a second time at scope exit, after the
\* explicit destructor calls, goes unnoticed.
ReadConfiguration(m, fl, beginOk, openOk, garbage, benign) ==
    IF ~beginOk THEN ReadResult(m, FALSE, "mountFailed", <<>>, FALSE)
    ELSE IF ~fl.exists THEN ReadResult(m, TRUE, "noFile", <<>>, FALSE)
    ELSE IF ~openOk THEN ReadResult(m, TRUE, "openFailed", <<>>, FALSE)
    ELSE LET parsed == deserializeJson(fl.bytes \o garbage \o <<NUL>>)
         IN IF parsed.error
            THEN ReadResult(m, TRUE, "parseError", <<>>, ~benign)
            ELSE ReadResult(CopyFields(m, parsed.doc, 1), TRUE, "parsed", parsed.doc,
                            ~benign)

\* A faulty document that leaves out the last member.
SettingsDocument_DropsLast(m) ==
    [f \in 1..(Len(Fields) - 1) |-> [key |-> FieldKey[f], val |-> JStr(FieldString(m, f))]]

\* The document SaveConfiguration builds: the nine members, each the C string found at
\* its field's address.
SettingsDocument(m) ==
    [f \in FieldIds |-> [key |-> FieldKey[f], val |-> JStr(FieldString(m, f))]]

\* SaveConfiguration(settings).  openOk is the answer of SPIFFS.open(.., "w"); benign as
\* for ReadConfiguration (json is destroyed explicitly and again at scope exit).
SaveConfiguration(m, fl, openOk, benign) ==
    IF ~openOk
    THEN [file |-> fl, wrote |-> FALSE, aborted |-> FALSE]
    ELSE [file |-> [exists |-> TRUE, bytes |-> serializeJson(SettingsDocument(m))],
          wrote |-> TRUE, aborted |-> ~benign]

(***************************************************************************)
(* The connectivity bootstrap                                              *)
(***************************************************************************)

Take(s, n) == SubSeq(s, 1, IF Len(s) < n THEN Len(s) ELSE n)

\* WiFiManagerParameter(id, placeholder, defaultValue, length): the first `length`
\* characters of the field's string.
FormDefaults(m) == [f \in FormIds |-> Take(FieldString(m, f), FieldLen[f])]

\* What a user may type into a form field.
UserInputs == { <<"9">>, <<>> }

\* The form as submitted by a user who edited one field; an input holds fewer
\* characters than the field's length.
Submissions(defaults) ==
    UNION { { [defaults EXCEPT ![f] = v] : v \in {u \in UserInputs : Len(u) < FieldLen[f]} } :
            f \in FormIds }

\* saveConfigCallback(): _shouldSaveConfig = true.
saveConfigCallback(flag) == TRUE

\* wifiManager->autoConnect(): connected with the stored credentials (no portal, the
\* callback is not invoked), the portal timed out, or the user submitted the form
\* (the callback is invoked) and the connection then succeeded or failed.
AutoConnectOutcomes(defaults) ==
    { [connected |-> TRUE, callback |-> FALSE, form |-> defaults],
      [connected |-> FALSE, callback |-> FALSE, form |-> defaults] }
    \cup { [connected |-> c, callback |-> TRUE, form |-> form] :
             c \in BOOLEAN, form \in {defaults} \cup Submissions(defaults) }

\* The six strcpy calls from the form into the settings, from field f on.
RECURSIVE CopyForm(_, _, _)
CopyForm(m, form, f) ==
    IF f > Len(form) THEN m ELSE CopyForm(strcpy(m, f, form[f]), form, f + 1)

\* A faulty decision that goes on to save after a failed autoConnect.
ConnectDecision_IgnoresFailure(connected, shouldSave) ==
    [result |-> connected, save |-> shouldSave]

\* mangeConnectAndSettings after autoConnect: failure returns false at once; success
\* saves when _shouldSaveConfig is set and returns true.
ConnectDecision(connected, shouldSave) ==
    IF ~connected THEN [result |-> FALSE, save |-> FALSE]
    ELSE [result |-> TRUE, save |-> shouldSave]

(***************************************************************************)
(* Calls of the settings store and the bootstrap                           *)
(***************************************************************************)

\* The number of settings and bootstrap calls a behaviour explores.
MaxCalls == 2

NoFile == [exists |-> FALSE, bytes |-> <<>>]

Idle(op) ==
    [op |-> op, read |-> "none", doc |-> <<>>, connected |-> "none", callback |-> FALSE,
     saves |-> 0, wrote |-> FALSE, result |-> "none", form |-> <<>>]

\* The device after power-on, before any call: default settings, flag clear.
PowerOn ==
    /\ mem = DefaultSettings
    /\ shouldSaveConfig = FALSE
    /\ mounted = FALSE
    /\ crashed = FALSE
    /\ saved = [called |-> FALSE, mem |-> DefaultSettings, wrote |-> FALSE]
    /\ last = Idle("none")
    /\ ncalls = 0

\* A restart: static storage is initialized again, the file system keeps the file.
Reboot ==
    /\ mem' = DefaultSettings
    /\ shouldSaveConfig' = FALSE
    /\ mounted' = FALSE
    /\ crashed' = FALSE
    /\ last' = Idle("Reboot")
    /\ UNCHANGED <<file, saved>>
    /\ UNCHANGED svars

\* Everything a ReadConfiguration call may do, over the answers of the file system, what
\* lies past the buffer and the effect of the double destruction.
ReadOutcomes(m, fl) ==
    { ReadConfiguration(m, fl, beginOk, openOk, garbage, benign) :
        beginOk \in BOOLEAN, openOk \in BOOLEAN, benign \in BOOLEAN, garbage \in Garbage }

CallReadConfiguration ==
    /\ ~crashed
    /\ \E r \in ReadOutcomes(mem, file) :
         /\ mem' = r.mem
         /\ mounted' = r.mounted
         /\ crashed' = r.aborted
         /\ last' = [Idle("ReadConfiguration") EXCEPT
                       !.read = r.path, !.doc = r.doc,
                       !.result = IF r.aborted THEN "aborted" ELSE "returned"]
    /\ UNCHANGED <<file, shouldSaveConfig, saved>>
    /\ UNCHANGED svars

SaveOutcomes(m, fl, mnt) ==
    { SaveConfiguration(m, fl, mnt /\ openOk, benign) : openOk \in BOOLEAN, benign \in BOOLEAN }

CallSaveConfiguration ==
    /\ ~crashed
    /\ \E s \in SaveOutcomes(mem, file, mounted) :
         /\ file' = s.file
         /\ crashed' = s.aborted
         /\ saved' = [called |-> TRUE, mem |-> mem, wrote |-> s.wrote]
         /\ last' = [Idle("SaveConfiguration") EXCEPT
                       !.saves = 1, !.wrote = s.wrote,
                       !.result = IF s.aborted THEN "aborted" ELSE "returned"]
    /\ UNCHANGED <<mem, shouldSaveConfig, mounted>>
    /\ UNCHANGED svars

\* mangeConnectAndSettings(wifiManager, settings, waitingWiFiInSec) from autoConnect on:
\* r is what its ReadConfiguration call did, o what autoConnect did, openOk and benign
\* the environment of its SaveConfiguration call.
mangeConnectAndSettings(r, fl, flag, o, openOk, benign) ==
    LET flagNow == IF o.callback THEN saveConfigCallback(flag) ELSE flag
        d == ConnectDecision(o.connected, flagNow)
    IN IF d.save
       THEN LET m == CopyForm(r.mem, o.form, 1)
                s == SaveConfiguration(m, fl, r.mounted /\ openOk, benign)
            IN [mem |-> m, file |-> s.file, flag |-> flagNow, save |-> TRUE,
                wrote |-> s.wrote, aborted |-> s.aborted, result |-> d.result]
       ELSE [mem |-> r.mem, file |-> fl, flag |-> flagNow, save |-> FALSE,
             wrote |-> FALSE, aborted |-> FALSE, result |-> d.result]

MangeOutcomes(r, fl, flag, o) ==
    { mangeConnectAndSettings(r, fl, flag, o, openOk, benign) :
        openOk \in BOOLEAN, benign \in BOOLEAN }

CallMangeConnectAndSettings ==
    /\ ~crashed
    /\ \E r \in ReadOutcomes(mem, file) :
         IF r.aborted
         THEN /\ mem' = r.mem
              /\ mounted' = r.mounted
              /\ crashed' = TRUE
                   /\ last' = [Idle("mangeConnectAndSettings") EXCEPT
                            !.read = r.path, !.doc = r.doc, !.result = "aborted"]
              /\ UNCHANGED <<file, shouldSaveConfig, saved>>
         ELSE \E o \in AutoConnectOutcomes(FormDefaults(r.mem)) :
                \E x \in MangeOutcomes(r, file, shouldSaveConfig, o) :
                   /\ mem' = x.mem
                   /\ file' = x.file
                   /\ shouldSaveConfig' = x.flag
                   /\ mounted' = r.mounted
                   /\ crashed' = x.aborted
                   /\ saved' = IF x.save
                               THEN [called |-> TRUE, mem |-> x.mem, wrote |-> x.wrote]
                               ELSE saved
                   /\ last' = [op |-> "mangeConnectAndSettings", read |-> r.path,
                               doc |-> r.doc,
                               connected |-> IF o.connected THEN "true" ELSE "false",
                               callback |-> o.callback,
                               saves |-> IF x.save THEN 1 ELSE 0,
                               wrote |-> x.wrote,
                               result |-> IF x.aborted THEN "aborted"
                                          ELSE IF x.result THEN "true" ELSE "false",
                               form |-> o.form]
    /\ UNCHANGED svars

\* The values the caller gives Mode, DeviceState and DesiredTemperature after start.
SettingInputs == { <<BACKSLASH>> }

\* The caller sets one of the settings that can be set after the device has started.
SetSetting(f, v) ==
    /\ ~crashed
    /\ mem' = strcpy(mem, f, v)
    /\ last' = Idle("SetSetting")
    /\ UNCHANGED <<file, shouldSaveConfig, mounted, crashed, saved>>
    /\ UNCHANGED svars

(***************************************************************************)
(* The configuration files the device may start with                       *)
(***************************************************************************)

RECURSIVE DocOf(_, _, _)
DocOf(keys, v, f) ==
    IF f > Len(Fields) THEN <<>>
    ELSE (IF f \in keys THEN <<[key |-> FieldKey[f], val |-> v]>> ELSE <<>>)
         \o DocOf(keys, v, f + 1)

KeySets == { {}, {1}, {9}, {2, 7}, FieldIds }

\* A short string, a string that needs escaping, a string as long as the longest
\* field, null and a number.
DocValues ==
    { JStr(<<"a">>), JStr(<<QUOTE>>), JStr(<<"a", "b", "c">>), JNull, JNum(<<"7">>) }

WellFormedFiles == { serializeJson(DocOf(keys, v, 1)) : keys \in KeySets, v \in DocValues }

\* An empty file, a file that is no JSON, and documents cut short.
MalformedFiles ==
    { <<>>, <<"a">>, <<"{">>,
      <<"{", QUOTE, "s", QUOTE, ":", QUOTE, "a">>,
      <<"{", QUOTE, "s", QUOTE, ":", QUOTE, "a", QUOTE>> }

FileOf(bytes) == [exists |-> TRUE, bytes |-> bytes]

InitialFiles == { NoFile } \cup { FileOf(b) : b \in WellFormedFiles \cup MalformedFiles }

\* The files the bootstrap is explored with: none, a complete document, a document
\* whose server name fills its whole field, and a document cut short.
BootFiles ==
    { NoFile,
      FileOf(serializeJson(DocOf(FieldIds, JStr(<<"a">>), 1))),
      FileOf(serializeJson(DocOf({1}, JStr(<<"a", "b", "c">>), 1))),
      FileOf(<<"{", QUOTE, "s", QUOTE, ":", QUOTE, "a">>) }

\* A call counted against the bound of the behaviour.
Counted(A) == ncalls < MaxCalls /\ ncalls' = ncalls + 1 /\ A

Uncounted(A) == ncalls' = ncalls /\ A

Init ==
    /\ PowerOn
    /\ file \in BootFiles
    /\ SensorInit

StoreInit ==
    /\ PowerOn
    /\ file \in InitialFiles
    /\ SensorInit

Next ==
    \/ Counted(CallMangeConnectAndSettings)
    \/ Counted(Reboot)

Spec == Init /\ [][Next]_vars

StoreNext ==
    \/ Uncounted(CallReadConfiguration)
    \/ Uncounted(CallSaveConfiguration)
    \/ \E f \in FieldIds \ FormIds, v \in SettingInputs : Uncounted(SetSetting(f, v))
    \/ Uncounted(Reboot)

SpecStore == StoreInit /\ [][StoreNext]_vars

\* The sensor channels alone: the settings stay at their power-on state.
SensorOnlyInit ==
    /\ SensorInit
    /\ PowerOn
    /\ file = NoFile

SpecSensor == SensorOnlyInit /\ [][SensorNext]_vars

(***************************************************************************)
(* Properties of the settings store and the bootstrap                      *)
(***************************************************************************)

\* The nine fields as the C strings found at their addresses.
FieldStrings(m) == [f \in FieldIds |-> FieldString(m, f)]

\* The bytes of the array of field f.
FieldBytes(m, f) == SubSeq(m, FieldOffset[f] + 1, FieldOffset[f] + FieldLen[f])

\* Every field holds a string that ends inside its own array.
InBounds(m) == \A f \in FieldIds : Terminated(m, f)

\* The ways ReadConfiguration ends without having parsed a document.
FailurePaths == {"mountFailed", "noFile", "openFailed", "parseError"}

\* The document in the configuration file.
WrittenDocument == deserializeJson(file.bytes \o <<NUL>>).doc

\* C1: a call of mangeConnectAndSettings during which saveConfigCallback is not invoked
\* does not invoke SaveConfiguration, also when an earlier call of the same power-on
\* session went through onboarding and saved.
C1_NoSaveWithoutCallback ==
    (last.op = "mangeConnectAndSettings" /\ ~last.callback) => last.saves = 0

\* C2: every call of mangeConnectAndSettings in which autoConnect reports failure returns
\* false without invoking SaveConfiguration and leaves the configuration file as it was,
\* whatever the value of _shouldSaveConfig.
C2_FailureNeverSaves ==
    [][(last'.op = "mangeConnectAndSettings" /\ last'.connected = "false"
        /\ ncalls' = ncalls + 1)
       => (last'.result = "false" /\ last'.saves = 0 /\ file' = file /\ saved' = saved)]_vars

\* A failed autoConnect in a call that found _shouldSaveConfig already set.
C2_Witness ==
    /\ last.op = "mangeConnectAndSettings"
    /\ last.connected = "false"
    /\ ~last.callback
    /\ shouldSaveConfig
    /\ last.result = "false"
    /\ last.saves = 0

\* C3: when autoConnect succeeds and _shouldSaveConfig is set, mangeConnectAndSettings
\* returns true, has invoked SaveConfiguration exactly once, the six form fields of the
\* settings hold the form's values, and the document written holds them too.
C3_FormValuesSaved ==
    (last.op = "mangeConnectAndSettings" /\ last.connected = "true" /\ shouldSaveConfig)
    => /\ last.result = "true"
       /\ last.saves = 1
       /\ \A f \in FormIds : FieldString(mem, f) = last.form[f]
       /\ last.wrote =>
            \A f \in FormIds : GetString(WrittenDocument, FieldKey[f]) = Ptr(last.form[f])

\* C4: every copyJsonValue call of a load stores only inside the array of its field and
\* leaves the field terminated inside that array.
C4_CopyStaysInside ==
    (last.op = "ReadConfiguration" /\ last.read = "parsed")
    => \A f \in FieldIds :
         LET jsonValue == GetString(last.doc, FieldKey[f])
         IN ~jsonValue.null => (BytesStored(jsonValue) <= FieldLen[f] /\ Terminated(mem, f))

\* C5 as stated: after SaveConfiguration(s) with the nine fields of s within their
\* bounds, a ReadConfiguration into any settings record yields the nine fields of s.
C5_RoundTrip ==
    (last.op = "ReadConfiguration" /\ saved.called /\ InBounds(saved.mem))
    => FieldStrings(mem) = FieldStrings(saved.mem)

\* C5 amended: the same, provided SaveConfiguration opened the file for writing and
\* ReadConfiguration mounted the file system, opened the file and parsed it.
C5_RoundTripWhenStored ==
    (last.op = "ReadConfiguration" /\ saved.called /\ InBounds(saved.mem)
     /\ saved.wrote /\ last.read = "parsed")
    => FieldStrings(mem) = FieldStrings(saved.mem)

\* A load that brought back saved settings that differ from the defaults and hold a
\* character the document escapes.
C5_Witness ==
    /\ last.op = "ReadConfiguration"
    /\ last.read = "parsed"
    /\ saved.called
    /\ saved.wrote
    /\ InBounds(saved.mem)
    /\ FieldString(saved.mem, 1) # DefaultStrings[1]
    /\ \E f \in FieldIds : FieldString(saved.mem, f) = <<BACKSLASH>>
    /\ FieldStrings(mem) = FieldStrings(saved.mem)

\* C6: when ReadConfiguration parses a document, every field whose key is missing (or
\* null) keeps the bytes it had before the call, and every field whose key is present
\* holds the document's value.
C6_PartialLoad ==
    [][(last'.op = "ReadConfiguration" /\ last'.read = "parsed")
       => \A f \in FieldIds :
            LET jsonValue == GetString(last'.doc, FieldKey[f])
            IN IF jsonValue.null
               THEN FieldBytes(mem', f) = FieldBytes(mem, f)
               ELSE FieldString(mem', f) = jsonValue.s]_vars

\* C7: a ReadConfiguration call that cannot mount the file system, finds no file, cannot
\* open the file or cannot parse it leaves the settings as they were and does not abort.
C7_FailureLeavesSettings ==
    [][(last'.op = "ReadConfiguration" /\ last'.read \in FailurePaths)
       => (mem' = mem /\ ~crashed')]_vars

====
